---- MODULE Spec2Model ----
(***************************************************************************)
(* The SlackAPI JavaScript and TypeScript lint style (.eslintrc.js).       *)
(*                                                                         *)
(* The repository is one declarative configuration object.  The model      *)
(* holds that object as data (one definition per field of the source) and  *)
(* the resolution of the effective configuration of one file as a state    *)
(* machine: the lint engine looks the configuration up, tests the file     *)
(* against ignorePatterns, then applies the layers of the file in order:   *)
(* the presets of `extends`, the top-level `rules`, and each entry of      *)
(* `overrides` whose `files` globs match (its own `extends` first, then    *)
(* its parser, plugins and rules).                                         *)
(*                                                                         *)
(* What the presets and a configuration in a parent directory contain is   *)
(* not part of the repository: both are inputs.  A list of presets may set *)
(* any rule the configuration names that exists in the core engine or in a *)
(* plugin the list loads, to a setting the configuration writes nowhere.   *)
(***************************************************************************)
EXTENDS Naturals, Sequences, FiniteSets, TLC

VARIABLES
    file,        \* the file whose configuration is resolved: [dir, base, ext]
    parent,      \* the configuration found in the parent directory (input)
    pc,          \* the step of the resolution
    rules,       \* effective rule mapping: rule id -> [sev, opts]
    origin,      \* rule id -> the layer that last wrote its severity
    env,         \* environments in effect
    presets,     \* presets applied so far, in order
    plugins,     \* plugins in effect for the file (those of its matching layers)
    parser,      \* parser in effect
    project,     \* parserOptions.project in effect
    basePreset,  \* what the top-level presets set (input, drawn when applied)
    tsPreset     \* what the '**/*.ts' override's presets set (input)

vars == <<file, parent, pc, rules, origin, env, presets, plugins, parser,
          project, basePreset, tsPreset>>

\* ------------------------------------------------------------------ values

\* A rule identifier is <<plugin, name>>; a core rule has the plugin "".
Core(n) == <<"", n>>
Import(n) == <<"import", n>>
TsEslint(n) == <<"@typescript-eslint", n>>
Jsdoc(n) == <<"jsdoc", n>>

\* A rule setting: a severity and the options that follow it in the array.
Setting(s, o) == [sev |-> s, opts |-> o]
Unset == Setting("unset", <<>>)
Entry(i, v) == [id |-> i, val |-> v]

\* The greatest number of rules one preset input sets.
MaxPresetRules == 1

\* -------------------------------------------------------------------- data

\* Mutation: the root flag left out.
RootUnset == FALSE

Root == TRUE

\* Mutation: the patterns written without their leading slash.
IgnorePatternsUnanchored ==
    << [anchored |-> FALSE, name |-> "dist"],
       [anchored |-> FALSE, name |-> "coverage"] >>

\* '/dist', '/coverage': gitignore-style patterns anchored at the directory of
\* the configuration file by their leading slash.
IgnorePatterns ==
    << [anchored |-> TRUE, name |-> "dist"],
       [anchored |-> TRUE, name |-> "coverage"] >>

TopEnv == {"es2017", "node"}

TopExtends ==
    << "eslint:recommended", "plugin:node/recommended", "airbnb-base",
       "plugin:jsdoc/recommended" >>

\* Mutation: 'no-tabs' written a second time, with another severity.
TopRulesRepeated ==
    << Entry(Core("no-tabs"), Setting("error", <<>>)),
       Entry(Core("no-sequences"), Setting("error", <<>>)),
       Entry(Core("no-tabs"), Setting("off", <<>>)) >>

\* Mutation: the 'no-tabs' entry lost.
TopRulesWithoutNoTabs ==
    << Entry(Core("no-sequences"), Setting("error", <<>>)) >>

TopRules ==
    << Entry(Core("no-tabs"), Setting("error", <<>>)),
       Entry(Core("no-sequences"), Setting("error", <<>>)) >>

\* Mutation: the TypeScript override's glob mistyped.
Override0FilesTsx == { [dirs |-> "**", ext |-> "tsx"] }

\* Mutation: the TypeScript override scoped to JavaScript files as well.
Override0FilesJsToo ==
    { [dirs |-> "**", ext |-> "js"], [dirs |-> "**", ext |-> "ts"] }

\* files: ['**/*.ts']
Override0Files == { [dirs |-> "**", ext |-> "ts"] }

Override0Parser == "@typescript-eslint/parser"

Override0Project == "./tsconfig.eslint.json"

Override0Plugins == {"@typescript-eslint"}

Override0Extends ==
    << "plugin:@typescript-eslint/recommended", "airbnb-typescript/base" >>

\* Mutation: the TypeScript override enabling 'camelcase', which the final
\* override turns off.
Override0RulesWithCamelcase ==
    << Entry(Import("no-common-js"),
             Setting("error", << [allowConditionalRequire |-> FALSE] >>)),
       Entry(Import("named"), Setting("off", <<>>)),
       Entry(TsEslint("strict-boolean-expressions"),
             Setting("error", << [allowString |-> FALSE,
                                  allowNumber |-> FALSE,
                                  allowNullableObject |-> FALSE] >>)),
       Entry(TsEslint("consistent-type-definitions"),
             Setting("error", << "interface" >>)),
       Entry(TsEslint("explicit-member-accessibility"), Setting("error", <<>>)),
       Entry(TsEslint("consistent-type-assertions"),
             Setting("error",
                     << [assertionStyle |-> "as",
                         objectLiteralTypeAssertions |-> "allow-as-parameter"] >>)),
       Entry(TsEslint("explicit-module-boundary-types"),
             Setting("error", << [allowArgumentsExplicitlyTypedAsAny |-> TRUE] >>)),
       Entry(Jsdoc("no-types"), Setting("error", <<>>)),
       Entry(Core("camelcase"), Setting("error", <<>>)) >>

Override0Rules ==
    << Entry(Import("no-common-js"),
             Setting("error", << [allowConditionalRequire |-> FALSE] >>)),
       Entry(Import("named"), Setting("off", <<>>)),
       Entry(TsEslint("strict-boolean-expressions"),
             Setting("error", << [allowString |-> FALSE,
                                  allowNumber |-> FALSE,
                                  allowNullableObject |-> FALSE] >>)),
       Entry(TsEslint("consistent-type-definitions"),
             Setting("error", << "interface" >>)),
       Entry(TsEslint("explicit-member-accessibility"), Setting("error", <<>>)),
       Entry(TsEslint("consistent-type-assertions"),
             Setting("error",
                     << [assertionStyle |-> "as",
                         objectLiteralTypeAssertions |-> "allow-as-parameter"] >>)),
       Entry(TsEslint("explicit-module-boundary-types"),
             Setting("error", << [allowArgumentsExplicitlyTypedAsAny |-> TRUE] >>)),
       Entry(Jsdoc("no-types"), Setting("error", <<>>)) >>

\* Mutation: the final override scoped to JavaScript files only.
Override1FilesJsOnly == { [dirs |-> "**", ext |-> "js"] }

\* files: ['**/*.js', '**/*.ts']
Override1Files == { [dirs |-> "**", ext |-> "js"], [dirs |-> "**", ext |-> "ts"] }

\* The final override declares no parser, plugins or extends.
Override1Plugins == {}

Override1Extends == << >>

Override1Rules ==
    << Entry(Core("max-len"),
             Setting("error", << 120, 2, [ignoreUrls |-> TRUE,
                                          ignoreComments |-> FALSE,
                                          ignoreRegExpLiterals |-> TRUE,
                                          ignoreStrings |-> TRUE,
                                          ignoreTemplateLiterals |-> TRUE] >>)),
       Entry(Core("quotes"),
             Setting("error", << "single", [avoidEscape |-> TRUE,
                                            allowTemplateLiterals |-> FALSE] >>)),
       Entry(Core("camelcase"), Setting("off", <<>>)),
       Entry(Core("no-underscore-dangle"), Setting("off", <<>>)),
       Entry(TsEslint("naming-convention"),
             Setting("error",
                     << [selector |-> "default", format |-> <<"camelCase">>],
                        [selector |-> "variable",
                         format |-> <<"camelCase", "PascalCase", "UPPER_CASE">>],
                        [selector |-> "parameter", format |-> <<"camelCase">>,
                         leadingUnderscore |-> "allow"],
                        [selector |-> "typeLike", format |-> <<"PascalCase">>] >>)),
       Entry(Import("no-cycle"), Setting("off", <<>>)),
       Entry(Import("no-internal-modules"),
             Setting("error", << [allow |-> <<>>] >>)) >>

\* ------------------------------------------------------------------ inputs

\* The files of the project: a directory (path segments from the directory of
\* the configuration file), a base name and an extension.
Dirs ==
    { << >>, <<"src">>, <<"src", "dist">>, <<"dist">>, <<"dist", "lib">>,
      <<"coverage">>, <<"node_modules">>, <<"src", "node_modules">>,
      <<".github">>, <<"src", ".cache">> }

Bases == {"index", ".eslintrc"}

Exts == {"js", "ts", "json"}

Files == [dir : Dirs, base : Bases, ext : Exts]

\* The names of Dirs and Bases that begin with a dot.
DotNames == {".github", ".cache", ".eslintrc"}

\* A configuration the engine would find in the parent directory of the project.
NoParent ==
    [present |-> FALSE, rules |-> << >>, env |-> {}, extends |-> << >>]

SomeParent ==
    [present |-> TRUE,
     rules |-> (Core("no-console") :> Setting("warn", <<>>))
               @@ (Core("no-tabs") :> Setting("off", <<>>)),
     env |-> {"browser"},
     extends |-> <<"standard">>]

ParentConfigs == {NoParent, SomeParent}

\* The plugin a preset comes from and loads: 'plugin:<name>/<config>' is a
\* configuration of plugin <name>; the AirBnB presets configure import/ rules.
PresetPlugins(p) ==
    CASE p = "plugin:node/recommended" -> {"node"}
      [] p = "plugin:jsdoc/recommended" -> {"jsdoc"}
      [] p = "plugin:@typescript-eslint/recommended" -> {"@typescript-eslint"}
      [] p = "airbnb-base" -> {"import"}
      [] p = "airbnb-typescript/base" -> {"import", "@typescript-eslint"}
      [] OTHER -> {}

PluginsOf(ps) == UNION { PresetPlugins(ps[i]) : i \in DOMAIN ps }

\* The rules that exist: the engine's own, and each plugin's.
CoreRules ==
    { "no-tabs", "no-sequences", "max-len", "quotes", "camelcase",
      "no-underscore-dangle", "no-console" }

PluginRules(p) ==
    CASE p = "import" ->
           { "named", "no-cycle", "no-internal-modules", "no-commonjs",
             "no-amd", "no-nodejs-modules" }
      [] p = "@typescript-eslint" ->
           { "strict-boolean-expressions", "consistent-type-definitions",
             "explicit-member-accessibility", "consistent-type-assertions",
             "explicit-module-boundary-types", "naming-convention",
             "no-require-imports" }
      [] p = "jsdoc" -> { "no-types" }
      [] OTHER -> {}

\* The plugin a rule identifier names is among ps, and defines the rule.
RuleResolves(r, ps) ==
    IF r[1] = ""
    THEN r[2] \in CoreRules
    ELSE r[1] \in ps /\ r[2] \in PluginRules(r[1])

Range(s) == { s[i] : i \in DOMAIN s }

Ids(entries) == { entries[i].id : i \in DOMAIN entries }

\* Every rule identifier the configuration names, at any level.
ConfiguredRuleIds == Ids(TopRules) \cup Ids(Override0Rules) \cup Ids(Override1Rules)

\* The rules a list of presets may set: any rule the configuration names,
\* top-level ones included, that exists in the core engine or in a plugin the
\* list loads.
PresetRuleIds(ps) == { r \in ConfiguredRuleIds : RuleResolves(r, PluginsOf(ps)) }

\* The setting a preset gives a rule: a severity and options that differ from
\* every setting the configuration writes itself, so that whichever layer
\* wins shows in the effective setting.
PresetSettings == { Setting("warn", << [preset |-> TRUE] >>) }

\* What a list of presets sets, merged: a mapping on at most MaxPresetRules
\* of the rules it may set.
PresetInputs(ps) ==
    UNION { [S -> PresetSettings] :
            S \in { T \in SUBSET PresetRuleIds(ps) : Cardinality(T) <= MaxPresetRules } }

\* What the top-level presets may set, and what the presets of the '**/*.ts'
\* override may set.
TopPresetInputs == PresetInputs(TopExtends)

Override0PresetInputs == PresetInputs(Override0Extends)

\* ----------------------------------------------------------------- engine

\* The mapping an object literal denotes: of two entries with one key, the
\* later one stands.
RulesOf(entries) ==
    [ r \in Ids(entries) |->
        entries[CHOOSE i \in DOMAIN entries :
                    /\ entries[i].id = r
                    /\ \A j \in DOMAIN entries : entries[j].id = r => j <= i].val ]

Get(rs, r) == IF r \in DOMAIN rs THEN rs[r] ELSE Unset

\* A later layer's setting replaces an earlier one; a setting that gives a
\* severity alone keeps the options the earlier layers gave.
MergeRules(rs, layer) ==
    [ r \in DOMAIN rs \cup DOMAIN layer |->
        IF r \notin DOMAIN layer THEN rs[r]
        ELSE IF Len(layer[r].opts) = 0 /\ r \in DOMAIN rs
             THEN Setting(layer[r].sev, rs[r].opts)
             ELSE layer[r] ]

MergeOrigin(og, layer, name) ==
    [ r \in DOMAIN og \cup DOMAIN layer |->
        IF r \in DOMAIN layer THEN name ELSE og[r] ]

\* '**/*.<ext>' matches a file of that extension in any directory.
GlobMatches(g, f) == g.dirs = "**" /\ f.ext = g.ext

FilesMatch(globs, f) == \E g \in globs : GlobMatches(g, f)

\* An anchored pattern names an entry of the configuration file's directory;
\* an unanchored one names an entry at any depth.  Everything under a matched
\* directory is ignored.
PatternIgnores(p, f) ==
    IF p.anchored
    THEN Len(f.dir) >= 1 /\ f.dir[1] = p.name
    ELSE \E i \in DOMAIN f.dir : f.dir[i] = p.name

Ignored(f) == \E i \in DOMAIN IgnorePatterns : PatternIgnores(IgnorePatterns[i], f)

\* node_modules, dotfiles and dot directories are ignored without a pattern.
ImplicitlyIgnored(f) ==
    \/ \E i \in DOMAIN f.dir : f.dir[i] = "node_modules" \/ f.dir[i] \in DotNames
    \/ f.base \in DotNames

\* ---------------------------------------------------------------- actions

Init ==
    /\ file \in Files
    /\ parent \in ParentConfigs
    /\ pc = "start"
    /\ rules = << >>
    /\ origin = << >>
    /\ env = {}
    /\ presets = << >>
    /\ plugins = {}
    /\ parser = "espree"
    /\ project = "none"
    /\ basePreset = << >>
    /\ tsPreset = << >>

\* The engine reads this file; a root configuration ends the lookup, any other
\* starts from what the parent directories configure.
LoadConfig ==
    /\ pc = "start"
    /\ pc' = "ignore"
    /\ IF Root
       THEN /\ rules' = << >>
            /\ origin' = << >>
            /\ env' = {}
            /\ presets' = << >>
       ELSE /\ rules' = parent.rules
            /\ origin' = [ r \in DOMAIN parent.rules |-> "parent" ]
            /\ env' = parent.env
            /\ presets' = parent.extends
    /\ UNCHANGED <<file, parent, plugins, parser, project, basePreset, tsPreset>>

CheckIgnore ==
    /\ pc = "ignore"
    /\ pc' = IF Ignored(file) \/ ImplicitlyIgnored(file) THEN "ignored" ELSE "extends"
    /\ UNCHANGED <<file, parent, rules, origin, env, presets, plugins, parser,
                   project, basePreset, tsPreset>>

ApplyTopExtends ==
    /\ pc = "extends"
    /\ pc' = "top"
    /\ \E p \in TopPresetInputs :
         /\ basePreset' = p
         /\ rules' = MergeRules(rules, p)
         /\ origin' = MergeOrigin(origin, p, "extends")
    /\ presets' = presets \o TopExtends
    /\ plugins' = plugins \cup PluginsOf(TopExtends)
    /\ UNCHANGED <<file, parent, env, parser, project, tsPreset>>

ApplyTopLevel ==
    /\ pc = "top"
    /\ pc' = "override0"
    /\ env' = env \cup TopEnv
    /\ rules' = MergeRules(rules, RulesOf(TopRules))
    /\ origin' = MergeOrigin(origin, RulesOf(TopRules), "top")
    /\ UNCHANGED <<file, parent, presets, plugins, parser, project,
                   basePreset, tsPreset>>

ApplyOverride0 ==
    /\ pc = "override0"
    /\ pc' = "override1"
    /\ IF FilesMatch(Override0Files, file)
       THEN /\ \E p \in Override0PresetInputs :
                 /\ tsPreset' = p
                 /\ rules' = MergeRules(MergeRules(rules, p), RulesOf(Override0Rules))
                 /\ origin' = MergeOrigin(MergeOrigin(origin, p, "override0.extends"),
                                          RulesOf(Override0Rules), "override0")
            /\ presets' = presets \o Override0Extends
            /\ plugins' = plugins \cup PluginsOf(Override0Extends) \cup Override0Plugins
            /\ parser' = Override0Parser
            /\ project' = Override0Project
       ELSE UNCHANGED <<rules, origin, presets, plugins, parser, project, tsPreset>>
    /\ UNCHANGED <<file, parent, env, basePreset>>

ApplyOverride1 ==
    /\ pc = "override1"
    /\ pc' = "done"
    /\ IF FilesMatch(Override1Files, file)
       THEN /\ rules' = MergeRules(rules, RulesOf(Override1Rules))
            /\ origin' = MergeOrigin(origin, RulesOf(Override1Rules), "override1")
            /\ presets' = presets \o Override1Extends
            /\ plugins' = plugins \cup PluginsOf(Override1Extends) \cup Override1Plugins
       ELSE UNCHANGED <<rules, origin, presets, plugins>>
    /\ UNCHANGED <<file, parent, env, parser, project, basePreset, tsPreset>>

Next ==
    \/ LoadConfig
    \/ CheckIgnore
    \/ ApplyTopExtends
    \/ ApplyTopLevel
    \/ ApplyOverride0
    \/ ApplyOverride1

Spec == Init /\ [][Next]_vars

\* ----------------------------------------------------------------- claims

IsJs(f) == f.ext = "js"
IsTs(f) == f.ext = "ts"

ExplicitIds == ConfiguredRuleIds

AllRuleIds == ConfiguredRuleIds \cup DOMAIN SomeParent.rules

\* The effective setting is the one a layer wrote: its severity, and its
\* options where it wrote any.
Gives(eff, written) ==
    /\ eff.sev = written.sev
    /\ Len(written.opts) > 0 => eff.opts = written.opts

\* The last layer that matches f and mentions r.  The layers, in the order
\* they apply: the top-level presets, the top-level rules, the '**/*.ts'
\* override (its presets, then its own rules), the '**/*.js','**/*.ts' override.
LastLayer(f, r) ==
    IF (IsJs(f) \/ IsTs(f)) /\ r \in Ids(Override1Rules) THEN "override1"
    ELSE IF IsTs(f) /\ r \in Ids(Override0Rules) THEN "override0"
    ELSE IF IsTs(f) /\ r \in DOMAIN tsPreset THEN "override0.extends"
    ELSE IF r \in Ids(TopRules) THEN "top"
    ELSE IF r \in DOMAIN basePreset THEN "extends"
    ELSE "none"

WrittenBy(l) ==
    CASE l = "extends" -> basePreset
      [] l = "top" -> RulesOf(TopRules)
      [] l = "override0.extends" -> tsPreset
      [] l = "override0" -> RulesOf(Override0Rules)
      [] l = "override1" -> RulesOf(Override1Rules)

\* C1: the layers apply in the order top-level presets and rules, '**/*.ts'
\* override, '**/*.js','**/*.ts' override; for every file and rule the
\* effective setting is that of the last matching layer that mentions the
\* rule, a matching override block (its presets included) wins over the
\* top-level rules, and an override that does not match the file contributes
\* nothing: a rule no matching layer mentions has no setting, and a file that
\* does not match '**/*.ts' has nothing from that override.
C1_LastMatchingLayerWins ==
    pc = "done" =>
      /\ \A r \in AllRuleIds :
           LET l == LastLayer(file, r) IN
             IF l = "none"
             THEN r \notin DOMAIN rules
             ELSE /\ r \in DOMAIN rules
                  /\ origin[r] = l
                  /\ Gives(rules[r], WrittenBy(l)[r])
      /\ DOMAIN rules \subseteq AllRuleIds
      /\ ~IsTs(file) =>
           \A r \in DOMAIN origin : origin[r] \notin {"override0.extends", "override0"}
      /\ ~(IsJs(file) \/ IsTs(file)) =>
           \A r \in DOMAIN origin : origin[r] # "override1"

C1_Witness ==
    /\ pc = "done"
    /\ IsTs(file)
    /\ Core("no-tabs") \in DOMAIN tsPreset
    /\ origin[Core("no-tabs")] = "override0.extends"
    /\ rules[Core("no-tabs")].sev = "warn"
    /\ origin[Core("no-sequences")] = "top"
    /\ origin[Import("named")] = "override0"
    /\ origin[Core("max-len")] = "override1"

NoRepeatedId(entries) ==
    \A i, j \in DOMAIN entries : entries[i].id = entries[j].id => i = j

OneSeverity(entries) ==
    \A i \in DOMAIN entries : RulesOf(entries)[entries[i].id].sev = entries[i].val.sev

\* C2: within each of the three rule mappings every rule identifier occurs at
\* most once, so each scope gives every rule it mentions exactly one severity.
C2_OneSeverityPerScope ==
    /\ NoRepeatedId(TopRules) /\ OneSeverity(TopRules)
    /\ NoRepeatedId(Override0Rules) /\ OneSeverity(Override0Rules)
    /\ NoRepeatedId(Override1Rules) /\ OneSeverity(Override1Rules)
    /\ pc = "done" /\ ~(IsJs(file) \/ IsTs(file)) =>
         \A i \in DOMAIN TopRules : Gives(Get(rules, TopRules[i].id), TopRules[i].val)
    /\ pc = "done" /\ IsTs(file) =>
         \A i \in DOMAIN Override0Rules :
           Override0Rules[i].id \notin Ids(Override1Rules) =>
             Gives(Get(rules, Override0Rules[i].id), Override0Rules[i].val)
    /\ pc = "done" /\ (IsJs(file) \/ IsTs(file)) =>
         \A i \in DOMAIN Override1Rules :
           Gives(Get(rules, Override1Rules[i].id), Override1Rules[i].val)

C2_Witness ==
    /\ pc = "done"
    /\ IsTs(file)
    /\ {"top", "override0", "override1"} \subseteq Range(origin)

TopLevelJsRules == {Core("no-tabs"), Core("no-sequences")}

\* C3 as stated: for every '**/*.ts' file, as for every '**/*.js' file,
\* 'no-tabs' and 'no-sequences' are 'error' once all matching overrides are
\* applied, and no override's own rule mapping mentions either rule.
C3_TopRulesInherited ==
    /\ pc = "done" /\ (IsTs(file) \/ IsJs(file)) =>
         /\ Get(rules, Core("no-tabs")).sev = "error"
         /\ Get(rules, Core("no-sequences")).sev = "error"
    /\ TopLevelJsRules \cap (Ids(Override0Rules) \cup Ids(Override1Rules)) = {}

\* C3, amended: no override's own rule mapping mentions 'no-tabs' or
\* 'no-sequences'; both are 'error' for every '**/*.js' file, and each is
\* 'error' for a '**/*.ts' file unless a preset the '**/*.ts' override extends
\* sets the rule, in which case that preset's severity is the effective one.
C3_TopRulesInheritedUnlessPreset ==
    /\ pc = "done" /\ IsJs(file) =>
         \A r \in TopLevelJsRules : Get(rules, r).sev = "error"
    /\ pc = "done" /\ IsTs(file) =>
         \A r \in TopLevelJsRules :
           Get(rules, r).sev = IF r \in DOMAIN tsPreset THEN tsPreset[r].sev
                               ELSE "error"
    /\ TopLevelJsRules \cap (Ids(Override0Rules) \cup Ids(Override1Rules)) = {}

C3_Witness ==
    /\ pc = "done"
    /\ IsTs(file)
    /\ Core("no-sequences") \in DOMAIN tsPreset
    /\ Get(rules, Core("no-sequences")).sev = "warn"
    /\ Get(rules, Core("no-tabs")).sev = "error"

\* C4: for every '**/*.js' or '**/*.ts' file the settings of 'max-len',
\* 'quotes', 'camelcase', 'no-underscore-dangle', 'import/no-cycle' and
\* 'import/no-internal-modules' are those written in the final override,
\* whatever the presets set, and no override after the '**/*.ts' one extends
\* a preset.
C4_FinalOverrideStands ==
    /\ pc = "done" /\ (IsJs(file) \/ IsTs(file)) =>
         /\ Get(rules, Core("max-len")).sev = "error"
         /\ Get(rules, Core("max-len")).opts[1] = 120
         /\ Get(rules, Core("quotes")).sev = "error"
         /\ Get(rules, Core("quotes")).opts[1] = "single"
         /\ Get(rules, Core("quotes")).opts[2].allowTemplateLiterals = FALSE
         /\ Get(rules, Core("camelcase")).sev = "off"
         /\ Get(rules, Core("no-underscore-dangle")).sev = "off"
         /\ Get(rules, Import("no-cycle")).sev = "off"
         /\ Get(rules, Import("no-internal-modules")).sev = "error"
         /\ \A r \in { Core("max-len"), Core("quotes"), Core("camelcase"),
                       Core("no-underscore-dangle"), Import("no-cycle"),
                       Import("no-internal-modules") } :
              Gives(Get(rules, r), RulesOf(Override1Rules)[r])
    /\ Len(Override1Extends) = 0

C4_Witness ==
    /\ pc = "done"
    /\ IsTs(file)
    /\ Core("max-len") \in DOMAIN tsPreset
    /\ Core("quotes") \in DOMAIN basePreset
    /\ Get(rules, Core("max-len")).opts[1] = 120

EnabledRules(rs) == { r \in DOMAIN rs : rs[r].sev # "off" }

\* C5 as stated: for every '**/*.js' and every '**/*.ts' file 'camelcase' and
\* 'no-underscore-dangle' are off, '@typescript-eslint/naming-convention' is
\* 'error', and the '@typescript-eslint' plugin that defines it is in effect
\* for the file: every enabled rule of a plugin has its plugin loaded by a
\* layer that matches the file.
C5_PluginInEffectForFile ==
    pc = "done" /\ (IsJs(file) \/ IsTs(file)) =>
      /\ Get(rules, Core("camelcase")).sev = "off"
      /\ Get(rules, Core("no-underscore-dangle")).sev = "off"
      /\ Get(rules, TsEslint("naming-convention")).sev = "error"
      /\ "@typescript-eslint" \in plugins
      /\ \A r \in EnabledRules(rules) : r[1] # "" => r[1] \in plugins

\* C5, amended: for every '**/*.js' and every '**/*.ts' file 'camelcase' and
\* 'no-underscore-dangle' are off and '@typescript-eslint/naming-convention'
\* is 'error'.  For a '**/*.ts' file the '@typescript-eslint' plugin is in
\* effect and every enabled rule of a plugin has its plugin loaded by a layer
\* that matches the file.  For a '**/*.js' file no matching layer loads the
\* '@typescript-eslint' plugin, and every enabled rule of a plugin other than
\* '@typescript-eslint/naming-convention' has its plugin loaded by a layer
\* that matches the file.
C5_NamingConventionReplaces ==
    pc = "done" /\ (IsJs(file) \/ IsTs(file)) =>
      /\ Get(rules, Core("camelcase")).sev = "off"
      /\ Get(rules, Core("no-underscore-dangle")).sev = "off"
      /\ Get(rules, TsEslint("naming-convention")).sev = "error"
      /\ IsTs(file) =>
           /\ "@typescript-eslint" \in plugins
           /\ \A r \in EnabledRules(rules) : r[1] # "" => r[1] \in plugins
      /\ IsJs(file) =>
           /\ "@typescript-eslint" \notin plugins
           /\ \A r \in EnabledRules(rules) \ {TsEslint("naming-convention")} :
                r[1] # "" => r[1] \in plugins

C5_Witness ==
    /\ pc = "done"
    /\ IsJs(file)
    /\ Jsdoc("no-types") \in EnabledRules(rules)
    /\ Import("no-internal-modules") \in EnabledRules(rules)
    /\ TsEslint("naming-convention") \in EnabledRules(rules)
    /\ plugins = {"node", "import", "jsdoc"}

Override0RuleIds ==
    { Import("no-common-js"), Import("named"),
      TsEslint("strict-boolean-expressions"),
      TsEslint("consistent-type-definitions"),
      TsEslint("explicit-member-accessibility"),
      TsEslint("consistent-type-assertions"),
      TsEslint("explicit-module-boundary-types"),
      Jsdoc("no-types") }

\* Nothing of the '**/*.ts' override is in effect.
C6_NothingOfOverride0 ==
    /\ parser = "espree"
    /\ project = "none"
    /\ "@typescript-eslint" \notin plugins
    /\ \A i \in DOMAIN presets :
         presets[i] \notin {"plugin:@typescript-eslint/recommended",
                            "airbnb-typescript/base"}
    /\ \A r \in DOMAIN origin : origin[r] # "override0"

\* A step of the overrides that leaves what the '**/*.ts' override names alone.
C6_StepKeeps ==
    pc \in {"override0", "override1"} /\ ~IsTs(file) =>
      /\ parser' = parser
      /\ project' = project
      /\ plugins' = plugins
      /\ presets' = presets
      /\ \A r \in Override0RuleIds : Get(rules', r) = Get(rules, r)

\* C6: for a file that does not match '**/*.ts', applying the overrides leaves
\* the parser, parserOptions.project, the plugins, the presets and the eight
\* rules of the '**/*.ts' override as the top-level configuration gave them.
C6_TsOverrideOnlyForTs ==
    /\ [](pc \in {"override0", "override1", "done"} /\ ~IsTs(file)
            => C6_NothingOfOverride0)
    /\ [][C6_StepKeeps]_vars

C6_Witness ==
    /\ pc = "done"
    /\ IsJs(file)
    /\ Import("named") \in DOMAIN basePreset
    /\ origin[Import("named")] = "extends"
    /\ origin[Core("max-len")] = "override1"

\* C7: the configuration is a root, so nothing a configuration in a parent
\* directory holds (rule, environment, preset) reaches any file's effective
\* configuration.
C7_RootStopsLookup ==
    pc # "start" =>
      /\ \A r \in DOMAIN origin : origin[r] # "parent"
      /\ env \subseteq TopEnv
      /\ \A i \in DOMAIN presets :
           presets[i] \in Range(TopExtends) \cup Range(Override0Extends)
                            \cup Range(Override1Extends)
      /\ pc = "done" => Get(rules, Core("no-console")) = Unset

C7_Witness ==
    /\ pc = "done"
    /\ parent.present
    /\ Core("no-tabs") \in DOMAIN parent.rules
    /\ Get(rules, Core("no-tabs")).sev = "error"

UnderBuildOutput(f) == Len(f.dir) >= 1 /\ f.dir[1] \in {"dist", "coverage"}

\* C8: every file under the project-root dist or coverage directory is left
\* out of linting, whatever its extension; a file outside them that is not
\* implicitly ignored is never left out.
C8_BuildOutputsIgnored ==
    pc \notin {"start", "ignore"} =>
      /\ UnderBuildOutput(file) => pc = "ignored" /\ DOMAIN rules = {}
      /\ ~UnderBuildOutput(file) /\ ~ImplicitlyIgnored(file) => pc # "ignored"

C8_Witness ==
    /\ pc = "ignored"
    /\ file.dir = <<"dist", "lib">>
    /\ IsTs(file)

\* C9: for every '**/*.ts' file 'import/no-common-js' is enabled at 'error'
\* with allowConditionalRequire false, and every rule the configuration
\* enables for the file exists in the core engine or in a plugin in effect.
C9_EnabledRulesExist ==
    pc = "done" /\ IsTs(file) =>
      /\ Get(rules, Import("no-common-js")).sev = "error"
      /\ Get(rules, Import("no-common-js")).opts[1].allowConditionalRequire = FALSE
      /\ \A r \in EnabledRules(rules) : RuleResolves(r, plugins)

RECURSIVE ApplyLayers(_, _)
ApplyLayers(rs, layers) ==
    IF layers = << >> THEN rs
    ELSE ApplyLayers(MergeRules(rs, Head(layers)), Tail(layers))

\* What a layer contributes to file f.
LayerFor(l, f) ==
    CASE l = "extends" -> basePreset
      [] l = "top" -> RulesOf(TopRules)
      [] l = "override0.extends" ->
           IF FilesMatch(Override0Files, f) THEN tsPreset ELSE << >>
      [] l = "override0" ->
           IF FilesMatch(Override0Files, f) THEN RulesOf(Override0Rules) ELSE << >>
      [] l = "override1" ->
           IF FilesMatch(Override1Files, f) THEN RulesOf(Override1Rules) ELSE << >>

ResolveIn(order, f) ==
    ApplyLayers(<< >>, [ i \in DOMAIN order |-> LayerFor(order[i], f) ])

PairwiseDisjoint ==
    /\ Ids(TopRules) \cap Ids(Override0Rules) = {}
    /\ Ids(TopRules) \cap Ids(Override1Rules) = {}
    /\ Ids(Override0Rules) \cap Ids(Override1Rules) = {}

\* C10 as stated: the three rule mappings are pairwise disjoint, so every
\* explicitly configured rule has the same effective setting with the two
\* override blocks exchanged.
C10_BlocksCommute ==
    /\ PairwiseDisjoint
    /\ pc = "done" =>
         LET exchanged == ResolveIn(<<"extends", "top", "override1",
                                      "override0.extends", "override0">>, file)
         IN \A r \in ExplicitIds : Get(rules, r) = Get(exchanged, r)

\* C10, amended: the three rule mappings are pairwise disjoint, so every
\* explicitly configured rule has the same effective setting whichever order
\* the two overrides' rule mappings are applied in, each block's presets
\* staying where they are.
C10_RuleMappingsCommute ==
    /\ PairwiseDisjoint
    /\ pc = "done" =>
         LET exchanged == ResolveIn(<<"extends", "top", "override0.extends",
                                      "override1", "override0">>, file)
         IN \A r \in ExplicitIds : Get(rules, r) = Get(exchanged, r)

C10_Witness ==
    /\ pc = "done"
    /\ IsTs(file)
    /\ Core("camelcase") \in DOMAIN tsPreset
    /\ origin[Core("camelcase")] = "override1"
    /\ origin[Jsdoc("no-types")] = "override0"

====
